---- MODULE Spec2Model ----
(***************************************************************************)
(* Energy cost calculation of the socket datalogger                        *)
(* (source/cost_calculation.py): the schedule resolver                     *)
(* check_cost_calc_requested, the date matcher check_matched_day, the      *)
(* aggregator cost_calc, the configuration readers check_cost_config and   *)
(* check_cost_calc_request_time, and the dispatcher cost_calc_handler.     *)
(*                                                                         *)
(* Conventions.  A Python string is a sequence of one-character strings.   *)
(* A value that may be absent (a missing dict key, None) is a sequence of  *)
(* length 0 or 1.  A datetime is a record [year, month, day]; the time of  *)
(* day is the same in every invocation and is left out.  Prices are in     *)
(* thousandths of a currency unit, energies in Wh or hundredths of a kWh.  *)
(* A Python exception that leaves a function is the name of its class in   *)
(* the field or variable "raised" ("" when the call returned).             *)
(***************************************************************************)
EXTENDS Integers, Sequences, FiniteSets, TLC

VARIABLES
    clock,                              \* what datetime.utcnow() returns
    config,                             \* the file at CONFIGURATION_FILE_PATH
    measurements,                       \* what sf.fetch_measurements returns, per window kind
    settings,                           \* the device's settings mapping
    cost_calc_requested,                \* the descriptor passed to cost_calc_handler
    configuration_failed_message_send,  \* module-level dict, line 21
    log,                                \* warnings written through lh.write_log, per kind
    sink,                               \* sf.cost_logging calls of the current invocation
    called,                             \* the function whose call has just ended ("" when idle)
    raised,                             \* the exception that call raised ("" when it returned)
    returned,                           \* the value that call returned
    month_reports,                      \* history of the "_month" records handed to the sink
    horizon                             \* the last day the run covers

vars == <<clock, config, measurements, settings, cost_calc_requested,
          configuration_failed_message_send, log, sink, called, raised,
          returned, month_reports, horizon>>

(***************************************************************************)
(* Bounds of the model.                                                    *)
(***************************************************************************)
NumYears == 2            \* consecutive years a run of daily invocations covers
MaxDays == 2             \* days the clock advances in the dispatch specification
MaxMonthLen == 3         \* longest cost_calc_month string of the resolver inputs
\* the runs of daily invocations start on 1 January of these years: they
\* reach a leap year, a common year, and the century years 2000 and 2100
StartYears == {1999, 2023, 2099}

None == <<>>
Some(v) == <<v>>
IsSome(o) == Len(o) = 1
Get(o) == o[1]

(***************************************************************************)
(* datetime, timedelta and relativedelta as the module uses them.          *)
(***************************************************************************)
IsLeap(y) == (y % 4 = 0) /\ ((y % 100 # 0) \/ (y % 400 = 0))

DAYS_IN_MONTH == <<31, 28, 31, 30, 31, 30, 31, 31, 30, 31, 30, 31>>

days_in_month(y, m) == IF m = 2 /\ IsLeap(y) THEN 29 ELSE DAYS_IN_MONTH[m]

Date(y, m, d) == [year |-> y, month |-> m, day |-> d]

\* date - timedelta(days=1)
minus_one_day(dt) ==
    IF dt.day > 1 THEN Date(dt.year, dt.month, dt.day - 1)
    ELSE IF dt.month > 1
         THEN Date(dt.year, dt.month - 1, days_in_month(dt.year, dt.month - 1))
         ELSE Date(dt.year - 1, 12, 31)

\* date + timedelta(days=1): the clock passing midnight
plus_one_day(dt) ==
    IF dt.day < days_in_month(dt.year, dt.month)
    THEN Date(dt.year, dt.month, dt.day + 1)
    ELSE IF dt.month < 12 THEN Date(dt.year, dt.month + 1, 1)
         ELSE Date(dt.year + 1, 1, 1)

RECURSIVE plus_days(_, _)
plus_days(dt, n) == IF n = 0 THEN dt ELSE plus_days(plus_one_day(dt), n - 1)

RECURSIVE minus_days(_, _)
minus_days(dt, n) == IF n = 0 THEN dt ELSE minus_days(minus_one_day(dt), n - 1)

relativedelta(y, m, d) == [years |-> y, months |-> m, days |-> d]

\* a month taken as 30 days and a year as 365
minus_relativedelta_fixed(dt, rd) ==
    minus_days(dt, (rd.years * 365) + (rd.months * 30) + rd.days)

\* datetime - relativedelta: years and months first, the day clamped to the
\* length of the month arrived at, then the days.
minus_relativedelta(dt, rd) ==
    LET m0 == dt.month - rd.months
        y  == IF m0 < 1 THEN dt.year - rd.years - 1 ELSE dt.year - rd.years
        m  == IF m0 < 1 THEN m0 + 12 ELSE m0
        d  == IF dt.day > days_in_month(y, m) THEN days_in_month(y, m) ELSE dt.day
    IN  minus_days(Date(y, m, d), rd.days)

days_before_year(y) ==
    LET p == y - 1 IN (p * 365) + (p \div 4) - (p \div 100) + (p \div 400)

RECURSIVE days_before_month(_, _)
days_before_month(y, m) ==
    IF m = 1 THEN 0 ELSE days_before_month(y, m - 1) + days_in_month(y, m - 1)

toordinal(dt) == days_before_year(dt.year) + days_before_month(dt.year, dt.month) + dt.day

\* (end - start).total_seconds()
total_seconds(end, start) == (toordinal(end) - toordinal(start)) * 86400

\* strftime("%Y-%m-%d %H:%M:%S"): the fixed-width fields, in their order
strftime(dt) == <<dt.year, dt.month, dt.day>>

(***************************************************************************)
(* Strings, int() and re.search.                                           *)
(***************************************************************************)
Digits == {"0", "1", "2", "3", "4", "5", "6", "7", "8", "9"}

DigitVal(c) ==
    CASE c = "0" -> 0 [] c = "1" -> 1 [] c = "2" -> 2 [] c = "3" -> 3
      [] c = "4" -> 4 [] c = "5" -> 5 [] c = "6" -> 6 [] c = "7" -> 7
      [] c = "8" -> 8 [] c = "9" -> 9

Whitespace == {"\n", " "}

RECURSIVE lstrip(_)
lstrip(s) == IF s # <<>> /\ Head(s) \in Whitespace THEN lstrip(Tail(s)) ELSE s

RECURSIVE rstrip(_)
rstrip(s) ==
    IF s # <<>> /\ s[Len(s)] \in Whitespace THEN rstrip(SubSeq(s, 1, Len(s) - 1)) ELSE s

strip(s) == rstrip(lstrip(s))

\* int(s) accepts surrounding whitespace; anything else but digits is a ValueError
int_raises(s) == strip(s) = <<>> \/ \E i \in 1..Len(strip(s)) : strip(s)[i] \notin Digits

RECURSIVE DecimalValue(_)
DecimalValue(s) ==
    IF s = <<>> THEN 0
    ELSE (10 * DecimalValue(SubSeq(s, 1, Len(s) - 1))) + DigitVal(s[Len(s)])

int(s) == DecimalValue(strip(s))

\* A pattern "^...$" is a set of alternatives, each a sequence of character
\* classes.  Without re.MULTILINE "^" is the start of the string and "$" is
\* its end or the place before a newline that ends it.
AtDollar(s, i) == i = Len(s) + 1 \/ (i = Len(s) /\ s[i] = "\n")

re_search(pattern, s) ==
    \E alt \in pattern :
        /\ Len(s) >= Len(alt)
        /\ \A i \in 1..Len(alt) : s[i] \in alt[i]
        /\ AtDollar(s, Len(alt) + 1)

TIME_OF_DAY_SCHEDULE_MATCH ==
    { <<{"0", "1"}, Digits, {":"}, {"0", "1", "2", "3", "4", "5"}, Digits>>,
      <<{"2"}, {"0", "1", "2", "3"}, {":"}, {"0", "1", "2", "3", "4", "5"}, Digits>> }

DAY_OF_MONTH_SCHEDULE_MATCH == { <<Digits, Digits>> }

DATE_OF_YEAR_SCHEDULE_MATCH == { <<Digits, Digits, {"."}, Digits, Digits>> }

\* str.split(sep) for a one-character separator
RECURSIVE split(_, _)
split(s, sep) ==
    IF \A i \in 1..Len(s) : s[i] # sep THEN <<s>>
    ELSE LET k == CHOOSE i \in 1..Len(s) : s[i] = sep /\ \A j \in 1..(i - 1) : s[j] # sep
         IN  <<SubSeq(s, 1, k - 1)>> \o split(SubSeq(s, k + 1, Len(s)), sep)

(***************************************************************************)
(* The schedule resolver.                                                  *)
(***************************************************************************)
check_month_parameter(month) ==
    LET checked_month == int(month)
    IN  IF checked_month < 1 \/ checked_month > 12 THEN 1 ELSE checked_month

check_day_parameter(day) ==
    LET checked_day == int(day)
    IN  IF checked_day < 1 \/ checked_day > 31 THEN 1 ELSE checked_day

\* IndexError when the split has no second part, ValueError from int()
check_year_parameter_raises(day_month) ==
    LET split_date == split(day_month, ".")
    IN  IF Len(split_date) < 2 THEN "IndexError"
        ELSE IF int_raises(split_date[2]) \/ int_raises(split_date[1]) THEN "ValueError"
        ELSE ""

check_year_parameter(day_month) ==
    LET split_date == split(day_month, ".")
    IN  [day   |-> check_day_parameter(split_date[1]),
         month |-> check_month_parameter(split_date[2])]

check_cost_calc_requested(s) ==
    LET day_on   == IsSome(s.cost_calc_day) /\ Get(s.cost_calc_day)
        month_on == IsSome(s.cost_calc_month)
                    /\ re_search(DAY_OF_MONTH_SCHEDULE_MATCH, Get(s.cost_calc_month))
        year_on  == IsSome(s.cost_calc_year)
                    /\ re_search(DATE_OF_YEAR_SCHEDULE_MATCH, Get(s.cost_calc_year))
        exc      == IF month_on /\ int_raises(Get(s.cost_calc_month)) THEN "ValueError"
                    ELSE IF year_on THEN check_year_parameter_raises(Get(s.cost_calc_year))
                    ELSE ""
    IN  [raised |-> exc,
         value  |-> IF exc # "" THEN None
                    ELSE Some([start_schedule_task |-> day_on \/ month_on \/ year_on,
                               cost_day   |-> day_on,
                               cost_month |-> IF month_on
                                              THEN Some(check_month_parameter(Get(s.cost_calc_month)))
                                              ELSE None,
                               cost_year  |-> IF year_on
                                              THEN Some(check_year_parameter(Get(s.cost_calc_year)))
                                              ELSE None])]

(***************************************************************************)
(* The date matcher.                                                       *)
(***************************************************************************)
last_day_of_month(date) ==
    IF date.month = 12 THEN Date(date.year, date.month, 31)
    ELSE minus_one_day(Date(date.year, date.month + 1, 1))

\* no fallback to the month's last day
check_matched_day_exact(current_date, target_day) == current_date.day = target_day

\* the month's last day matches whatever the target is
check_matched_day_or_month_end(current_date, target_day) ==
    \/ current_date.day = last_day_of_month(current_date).day
    \/ current_date.day = target_day

check_matched_day(current_date, target_day) ==
    LET last_day_of_current_month == last_day_of_month(current_date)
    IN  IF target_day > last_day_of_current_month.day
        THEN current_date.day = last_day_of_current_month.day
        ELSE current_date.day = target_day

check_matched_day_and_month(current_date, target_day, target_month) ==
    check_matched_day(current_date, target_day) /\ current_date.month = target_month

(***************************************************************************)
(* The configuration readers.                                              *)
(*                                                                         *)
(* config is [file, price_kwh, cost_calc_request_time]: file is "missing"  *)
(* (open raises FileNotFoundError), "bad_json" (json.load raises           *)
(* JSONDecodeError, a ValueError) or "ok"; the two settings of "general"   *)
(* may be absent.  A price is [type, tenk, text]: a JSON float or int with *)
(* its value in ten-thousandths, or a JSON string with its text.           *)
(***************************************************************************)
default_price == 300

\* the keys the handlers look up: the exception classes themselves
FileNotFoundErrorClass == "<class 'FileNotFoundError'>"
ValueErrorClass == "<class 'ValueError'>"

\* str.replace(",", ".")
replace_comma(s) == [i \in 1..Len(s) |-> IF s[i] = "," THEN "." ELSE s[i]]

\* float(s), for the decimal notation: digits with at most one point and at
\* least one digit; anything else here is a ValueError
float_raises(s) ==
    LET t == strip(s)
        parts == split(t, ".")
    IN  \/ Len(parts) > 2
        \/ \E i \in 1..Len(t) : t[i] \notin (Digits \cup {"."})
        \/ \A i \in 1..Len(t) : t[i] = "."

\* the value of float(s) in ten-thousandths
float(s) ==
    LET parts == split(strip(s), ".")
        frac  == IF Len(parts) = 2 THEN parts[2] ELSE <<>>
        frac4 == [i \in 1..4 |-> IF i <= Len(frac) THEN frac[i] ELSE "0"]
    IN  (DecimalValue(parts[1]) * 10000) + DecimalValue(frac4)

\* round(x, 3) of a value in ten-thousandths, in thousandths
round3(tenk) == (tenk + 5) \div 10

\* "if not configuration_failed_message_send[key]: write_log; send[key] = True"
warn_once(sent, key, kind) ==
    IF key \notin DOMAIN sent
    THEN [raised |-> "KeyError", sent |-> sent, warned |-> <<>>]
    ELSE IF ~sent[key]
    THEN [raised |-> "", sent |-> [sent EXCEPT ![key] = TRUE], warned |-> <<kind>>]
    ELSE [raised |-> "", sent |-> sent, warned |-> <<>>]

check_cost_calc_request_time(cfg, sent) ==
    IF cfg.file = "missing"
    THEN LET w == warn_once(sent, FileNotFoundErrorClass, "FileNotFoundError")
         IN  [raised |-> w.raised, sent |-> w.sent, warned |-> w.warned,
              value  |-> IF w.raised = "" THEN Some(<<"0", "0", ":", "0", "0">>) ELSE None]
    ELSE IF cfg.file = "bad_json"
    THEN [raised |-> "JSONDecodeError", sent |-> sent, warned |-> <<>>, value |-> None]
    ELSE [raised |-> "", sent |-> sent, warned |-> <<>>,
          value  |-> IF /\ IsSome(cfg.cost_calc_request_time)
                        /\ re_search(TIME_OF_DAY_SCHEDULE_MATCH, Get(cfg.cost_calc_request_time))
                     THEN Some(Get(cfg.cost_calc_request_time))
                     ELSE Some(<<"0", "0", ":", "0", "0">>)]

check_cost_config(cfg, sent) ==
    LET value_error ==
            LET w == warn_once(sent, ValueErrorClass, "ValueError")
            IN  [raised |-> w.raised, sent |-> w.sent, warned |-> w.warned,
                 value  |-> IF w.raised = "" THEN Some(default_price) ELSE None]
        returns(v) == [raised |-> "", sent |-> sent, warned |-> <<>>, value |-> Some(v)]
        raises(e)  == [raised |-> e, sent |-> sent, warned |-> <<>>, value |-> None]
    IN  IF cfg.file = "missing"
        THEN LET w == warn_once(sent, FileNotFoundErrorClass, "FileNotFoundError")
             IN  [raised |-> w.raised, sent |-> w.sent, warned |-> w.warned,
                  value  |-> IF w.raised = "" THEN Some(default_price) ELSE None]
        ELSE IF cfg.file = "bad_json" THEN value_error
        ELSE IF ~IsSome(cfg.price_kwh) THEN raises("UnboundLocalError")
        ELSE LET requested_kwh_price == Get(cfg.price_kwh)
             IN  IF requested_kwh_price.type = "float"
                 THEN returns(round3(requested_kwh_price.tenk))
                 ELSE IF requested_kwh_price.type # "str" THEN raises("AttributeError")
                 ELSE IF float_raises(replace_comma(requested_kwh_price.text)) THEN value_error
                 ELSE returns(round3(float(replace_comma(requested_kwh_price.text))))

(***************************************************************************)
(* The aggregator.  samples is what result.get_points() yields: a sequence *)
(* of [energy_wh, fetch_success].  The result is the exception raised, the *)
(* sf.cost_logging calls made, and the warning flags and warnings written  *)
(* by check_cost_config.                                                   *)
(***************************************************************************)
RECURSIVE sum_energy_wh(_)
sum_energy_wh(ms) == IF ms = <<>> THEN 0 ELSE Head(ms).energy_wh + sum_energy_wh(Tail(ms))

\* round(wh / 1000, 2), in hundredths of a kWh
round2_kwh(wh) == (wh + 5) \div 10

is_success(m) == m.fetch_success = TRUE
is_failed(m) == m.fetch_success = FALSE

cost_calc(device_name, s, current_timestamp, time_difference, cfg, sent, samples) ==
    LET start_date == minus_relativedelta(current_timestamp, time_difference)
        start_date_format == strftime(start_date)
        end_date == current_timestamp
        end_date_format == strftime(end_date)
        success_measurements == SelectSeq(samples, is_success)
        failed_measurements == SelectSeq(samples, is_failed)
        sum_of_energy_in_kwh == round2_kwh(sum_energy_wh(success_measurements))
        price == check_cost_config(cfg, sent)
        fetched == Len(success_measurements) + Len(failed_measurements)
        seconds == total_seconds(end_date, start_date)
        quiet(e) == [raised |-> e, records |-> <<>>, sent |-> price.sent, warned |-> price.warned]
        data == [start_date     |-> start_date_format,
                 end_date       |-> end_date_format,
                 sum_of_energy  |-> sum_of_energy_in_kwh,
                 total_cost     |-> sum_of_energy_in_kwh * Get(price.value),
                 cost_kwh       |-> Get(price.value),
                 \* failed * 100 / fetched, as numerator and denominator
                 error_rate_one |-> <<Len(failed_measurements) * 100, fetched>>,
                 \* (max_values - successes) * 100 / max_values with
                 \* max_values = seconds / update_time, as a fraction of 100
                 error_rate_two |-> <<seconds - (Len(success_measurements) * Get(s.update_time)),
                                      seconds>>]
        key == IF time_difference.days = 1 THEN Some(device_name \o "_day")
               ELSE IF time_difference.months = 1 THEN Some(device_name \o "_month")
               ELSE IF time_difference.years = 1 THEN Some(device_name \o "_year")
               ELSE None
    IN  IF price.raised # "" THEN quiet(price.raised)
        ELSE IF fetched = 0 THEN quiet("")
        ELSE IF ~IsSome(s.update_time) THEN quiet("KeyError")
        ELSE IF Get(s.update_time) = 0 THEN quiet("ZeroDivisionError")
        ELSE IF seconds = 0 THEN quiet("ZeroDivisionError")
        ELSE [raised  |-> "",
              records |-> IF IsSome(key) THEN <<[key |-> Get(key), data |-> data]>> ELSE <<>>,
              sent    |-> price.sent,
              warned  |-> price.warned]

(***************************************************************************)
(* The dispatcher.  now is the one datetime.utcnow() of the invocation;    *)
(* fetched maps "day", "month", "year" to the samples of that window.  An  *)
(* exception in one cost_calc ends the invocation: the later cadences are  *)
(* not reached.                                                            *)
(***************************************************************************)
\* One guarded call of cost_calc: the statements after a call that raised
\* are not reached.  before is the invocation so far, b, and the call's
\* result is c; each is bound to a name in a one-element set.
then_calc(before, due, device_name, s, now, time_difference, cfg, samples) ==
    CHOOSE after \in UNION {
        IF b.raised # "" \/ ~due THEN {b}
        ELSE { [raised  |-> c.raised,
                records |-> b.records \o c.records,
                sent    |-> c.sent,
                warned  |-> b.warned \o c.warned] :
               c \in {cost_calc(device_name, s, now, time_difference, cfg, b.sent, samples)} } :
        b \in {before} } : TRUE

cost_calc_handler(device_name, s, requested, now, cfg, sent, fetched) ==
    LET current_timestamp == now
        entered == [raised |-> "", records |-> <<>>, sent |-> sent, warned |-> <<>>]
        day     == then_calc(entered, requested.cost_day,
                             device_name, s, current_timestamp,
                             relativedelta(0, 0, 1), cfg, fetched["day"])
        month   == then_calc(day,
                             /\ IsSome(requested.cost_month)
                             /\ check_matched_day(current_timestamp, Get(requested.cost_month)),
                             device_name, s, current_timestamp,
                             relativedelta(0, 1, 0), cfg, fetched["month"])
        year    == then_calc(month,
                             /\ IsSome(requested.cost_year)
                             /\ check_matched_day_and_month(current_timestamp,
                                                            Get(requested.cost_year).day,
                                                            Get(requested.cost_year).month),
                             device_name, s, current_timestamp,
                             relativedelta(1, 0, 0), cfg, fetched["year"])
    IN  year

(***************************************************************************)
(* The values the environment supplies.                                    *)
(***************************************************************************)
device_name == "plug"

Cadences == {"day", "month", "year"}

good_sample == [energy_wh |-> 1000, fetch_success |-> TRUE]
bad_sample == [energy_wh |-> 0, fetch_success |-> FALSE]
SampleSets == { <<>>, <<good_sample>>, <<good_sample, bad_sample>> }

no_price == None
float_price == Some([type |-> "float", tenk |-> 2504, text |-> <<>>])
int_price == Some([type |-> "int", tenk |-> 10000, text |-> <<>>])
comma_price == Some([type |-> "str", tenk |-> 0, text |-> <<"0", ",", "2", "5">>])
word_price == Some([type |-> "str", tenk |-> 0, text |-> <<"a", "b", "c">>])

File(f, p, t) == [file |-> f, price_kwh |-> p, cost_calc_request_time |-> t]

healthy_config == File("ok", float_price, Some(<<"0", "6", ":", "3", "0">>))

ConfigStates ==
    { healthy_config,
      File("ok", comma_price, None),
      File("ok", word_price, Some(<<"2", "5", ":", "0", "0">>)),
      File("ok", int_price, None),
      File("ok", no_price, None),
      File("bad_json", None, None),
      File("missing", None, None) }

Settings(d, m, y, u) ==
    [cost_calc_day |-> d, cost_calc_month |-> m, cost_calc_year |-> y, update_time |-> u]

\* the descriptor check_cost_calc_requested starts from: nothing requested
nothing_requested ==
    [start_schedule_task |-> FALSE, cost_day |-> FALSE, cost_month |-> None, cost_year |-> None]

no_reports == [in_month |-> 0, last_end |-> None, prev_end |-> None]

\* the devices of the dispatch specification
DispatchSettings ==
    { Settings(d, m, y, u) :
        d \in {None, Some(TRUE)},
        m \in {None, Some(<<"0", "1">>)},
        y \in {None, Some(<<"2", "9", ".", "0", "2">>)},
        u \in {Some(0), Some(3600)} }

DispatchStarts == { Date(2023, 2, 27), Date(2024, 2, 28) }

(***************************************************************************)
(* The resolver's inputs: every string of at most MaxMonthLen characters   *)
(* for cost_calc_month, and for cost_calc_year two parts of one or two     *)
(* characters around a separator, with or without something after them.    *)
(***************************************************************************)
Chars == Digits \cup {".", "x", "\n"}

StringsOfLen(n) == [1..n -> Chars]
MonthStrings == UNION { StringsOfLen(n) : n \in 0..MaxMonthLen }

YearParts == UNION { [1..n -> Digits \cup {"x"}] : n \in 1..2 }
YearSeparators == { <<>>, <<".">>, <<"x">> }
YearTails == { <<>>, <<"\n">>, <<"x">> }

(***************************************************************************)
(* The state machine.  One call runs to completion before the next begins  *)
(* (the module is single-threaded and synchronous); the environment edits  *)
(* the configuration file and the measurement store between calls.         *)
(***************************************************************************)
no_value == [price |-> None, start_time |-> None]

RECURSIVE Logged(_, _)
Logged(l, warned) ==
    IF warned = <<>> THEN l
    ELSE Logged([l EXCEPT ![Head(warned)] = @ + 1], Tail(warned))

is_month_record(r) == r.key = device_name \o "_month"

Reported(mr, records) ==
    LET monthly == SelectSeq(records, is_month_record)
    IN  IF monthly = <<>> THEN mr
        ELSE [in_month |-> mr.in_month + Len(monthly),
              last_end |-> Some(monthly[Len(monthly)].data.end_date),
              prev_end |-> mr.last_end]

InitProcess ==
    /\ configuration_failed_message_send = [k \in {"FileNotFoundError", "ValueError"} |-> FALSE]
    /\ log = [k \in {"FileNotFoundError", "ValueError"} |-> 0]
    /\ sink = <<>>
    /\ called = ""
    /\ raised = ""
    /\ returned = no_value
    /\ month_reports = no_reports

Init ==
    /\ InitProcess
    /\ clock \in DispatchStarts
    /\ horizon = plus_days(clock, MaxDays)
    /\ config \in ConfigStates
    /\ measurements \in [Cadences -> SampleSets]
    /\ settings \in DispatchSettings
    /\ cost_calc_requested = nothing_requested

Resolve ==
    /\ called = ""
    /\ LET r == check_cost_calc_requested(settings)
       IN  /\ called' = "check_cost_calc_requested"
           /\ raised' = r.raised
           /\ cost_calc_requested' = IF IsSome(r.value) THEN Get(r.value) ELSE cost_calc_requested
    /\ UNCHANGED <<clock, config, measurements, settings, configuration_failed_message_send,
                   log, sink, returned, month_reports, horizon>>

Dispatch ==
    /\ called = ""
    /\ \E h \in { cost_calc_handler(device_name, settings, cost_calc_requested, clock, config,
                                     configuration_failed_message_send, measurements) } :
           /\ called' = "cost_calc_handler"
           /\ raised' = h.raised
           /\ sink' = h.records
           /\ configuration_failed_message_send' = h.sent
           /\ log' = Logged(log, h.warned)
           /\ month_reports' = Reported(month_reports, h.records)
    /\ UNCHANGED <<clock, config, measurements, settings, cost_calc_requested, returned, horizon>>

ReadPrice ==
    /\ called = ""
    /\ LET c == check_cost_config(config, configuration_failed_message_send)
       IN  /\ called' = "check_cost_config"
           /\ raised' = c.raised
           /\ returned' = [no_value EXCEPT !.price = c.value]
           /\ configuration_failed_message_send' = c.sent
           /\ log' = Logged(log, c.warned)
    /\ UNCHANGED <<clock, config, measurements, settings, cost_calc_requested, sink,
                   month_reports, horizon>>

ReadRequestTime ==
    /\ called = ""
    /\ LET c == check_cost_calc_request_time(config, configuration_failed_message_send)
       IN  /\ called' = "check_cost_calc_request_time"
           /\ raised' = c.raised
           /\ returned' = [no_value EXCEPT !.start_time = c.value]
           /\ configuration_failed_message_send' = c.sent
           /\ log' = Logged(log, c.warned)
    /\ UNCHANGED <<clock, config, measurements, settings, cost_calc_requested, sink,
                   month_reports, horizon>>

\* the caller of the resolver or of a configuration reader goes on
Return ==
    /\ called \notin {"", "cost_calc_handler"}
    /\ called' = ""
    /\ raised' = ""
    /\ returned' = no_value
    /\ sink' = <<>>
    /\ UNCHANGED <<clock, config, measurements, settings, cost_calc_requested,
                   configuration_failed_message_send, log, month_reports, horizon>>

\* the dispatcher is scheduled once a day: midnight passes after its call
NextDay ==
    /\ called = "cost_calc_handler"
    /\ clock # horizon
    /\ clock' = plus_one_day(clock)
    /\ called' = ""
    /\ raised' = ""
    /\ returned' = no_value
    /\ sink' = <<>>
    /\ month_reports' = IF clock'.month # clock.month
                        THEN [month_reports EXCEPT !.in_month = 0]
                        ELSE month_reports
    /\ UNCHANGED <<config, measurements, settings, cost_calc_requested,
                   configuration_failed_message_send, log, horizon>>

ConfigChange ==
    /\ called = ""
    /\ \E c \in ConfigStates \ {config} : config' = c
    /\ UNCHANGED <<clock, measurements, settings, cost_calc_requested,
                   configuration_failed_message_send, log, sink, called, raised, returned,
                   month_reports, horizon>>

StoreChange ==
    /\ called = ""
    /\ \E m \in [Cadences -> SampleSets] \ {measurements} : measurements' = m
    /\ UNCHANGED <<clock, config, settings, cost_calc_requested,
                   configuration_failed_message_send, log, sink, called, raised, returned,
                   month_reports, horizon>>

Next ==
    \/ Resolve
    \/ Dispatch
    \/ ReadPrice
    \/ ReadRequestTime
    \/ Return
    \/ NextDay
    \/ ConfigChange
    \/ StoreChange

Spec == Init /\ [][Next]_vars

(***************************************************************************)
(* The resolver alone, on every input string of the bounded sets.          *)
(***************************************************************************)
InitResolve ==
    /\ InitProcess
    /\ clock = Date(2023, 1, 1)
    /\ horizon = clock
    /\ config = healthy_config
    /\ measurements = [c \in Cadences |-> <<>>]
    /\ \/ \E d \in {None, Some(FALSE), Some(TRUE)}, m \in MonthStrings :
              settings = Settings(d, Some(m), None, Some(3600))
       \/ \E a \in YearParts, b \in YearParts, sep \in YearSeparators, tail \in YearTails :
              settings = Settings(None, None, Some(a \o sep \o b \o tail), Some(3600))
       \/ settings = Settings(Some(TRUE), None, None, None)
    /\ cost_calc_requested = nothing_requested

NextResolve == Resolve

SpecResolve == InitResolve /\ [][NextResolve]_vars

(***************************************************************************)
(* One invocation of the dispatcher on every consecutive day of NumYears   *)
(* years, for every monthly target day, with a healthy configuration and   *)
(* samples in every window.                                                *)
(***************************************************************************)
MonthlyTargets == 1..31

InitDaily ==
    /\ InitProcess
    /\ \E sy \in StartYears :
          /\ clock = Date(sy, 1, 1)
          /\ horizon = Date(sy + NumYears - 1, 12, 31)
    /\ config = healthy_config
    /\ measurements = [c \in Cadences |-> <<good_sample>>]
    /\ settings = Settings(None, None, None, Some(3600))
    /\ \E t \in MonthlyTargets :
          cost_calc_requested = [start_schedule_task |-> TRUE, cost_day |-> FALSE,
                                 cost_month |-> Some(t), cost_year |-> None]

NextDaily == Dispatch \/ NextDay

SpecDaily == InitDaily /\ [][NextDaily]_vars

(***************************************************************************)
(* What the claims speak of, stated without the code's own operators.      *)
(***************************************************************************)
HandlerReturned == called = "cost_calc_handler"

TwoDigits(str) == Len(str) = 2 /\ str[1] \in Digits /\ str[2] \in Digits

TwoDigitValue(a, b) == (10 * DigitVal(a)) + DigitVal(b)

DayOrOne(n) == IF 1 <= n /\ n <= 31 THEN n ELSE 1
MonthOrOne(n) == IF 1 <= n /\ n <= 12 THEN n ELSE 1

\* two digits, a dot, two digits
DayDotMonth(str) ==
    /\ Len(str) = 5
    /\ \A i \in {1, 2, 4, 5} : str[i] \in Digits
    /\ str[3] = "."

\* the length of a month by the calendar's rule
CalendarLastDay(dt) ==
    IF dt.month = 2
    THEN IF dt.year % 400 = 0 \/ (dt.year % 4 = 0 /\ dt.year % 100 # 0) THEN 29 ELSE 28
    ELSE IF dt.month \in {4, 6, 9, 11} THEN 30 ELSE 31

DayMatches(now, target_day) ==
    \/ target_day > CalendarLastDay(now) /\ now.day = CalendarLastDay(now)
    \/ target_day <= CalendarLastDay(now) /\ now.day = target_day

SinkKeys == { sink[i].key : i \in 1..Len(sink) }
Emitted(k) == Cardinality({ i \in 1..Len(sink) : sink[i].key = k })

EveryWindowHasSamples == \A c \in Cadences : measurements[c] # <<>>
NoWindowHasSamples == \A c \in Cadences : measurements[c] = <<>>

PriceUnparseable == config.file = "ok" /\ config.price_kwh = word_price
FileMissing == config.file = "missing"

MonthlyTarget == Get(cost_calc_requested.cost_month)

\* C1: after the resolver has run on a two-digit cost_calc_month DD, the
\* monthly cadence is enabled and its target day is int(DD) when that is in
\* 1..31 and 1 otherwise.
C1_MonthlyTargetIsTheDay ==
    ( /\ called = "check_cost_calc_requested"
      /\ IsSome(settings.cost_calc_month)
      /\ TwoDigits(Get(settings.cost_calc_month)) )
    => /\ raised = ""
       /\ IsSome(cost_calc_requested.cost_month)
       /\ MonthlyTarget = DayOrOne(TwoDigitValue(Get(settings.cost_calc_month)[1],
                                                  Get(settings.cost_calc_month)[2]))

\* C2: a call of check_cost_config with the file missing or the price not a
\* number returns the default price and raises nothing.
C2_DefaultPriceOnDefect ==
    (called = "check_cost_config" /\ (FileMissing \/ PriceUnparseable))
    => /\ raised = ""
       /\ returned.price = Some(default_price)

\* C3: check_matched_day(now, target) is true exactly when the target is
\* beyond the month's last day and now is that last day, or the target is
\* within the month and now is the target day; for target 31 that is the
\* last day of every month and no other day; and the dispatcher hands on a
\* monthly record on exactly those days.
C3_DayMatches ==
    /\ \A t \in 1..31 : check_matched_day(clock, t) <=> DayMatches(clock, t)
    /\ check_matched_day(clock, 31) <=> clock.day = CalendarLastDay(clock)
    /\ HandlerReturned => ((device_name \o "_month") \in SinkKeys
                            <=> DayMatches(clock, MonthlyTarget))

C3_Witness ==
    /\ HandlerReturned
    /\ clock = Date(2024, 2, 29)
    /\ MonthlyTarget = 31
    /\ (device_name \o "_month") \in SinkKeys

\* C4: an invocation in which every window has a sample hands on a "_day"
\* record iff the daily cadence is on, a "_month" record iff the monthly
\* target is set and matched, a "_year" record iff the yearly target is set
\* and matched, nothing else, each once, all ending at the invocation's now.
C4_RecordsFollowTheCadences ==
    (HandlerReturned /\ EveryWindowHasSamples)
    => /\ (device_name \o "_day") \in SinkKeys <=> cost_calc_requested.cost_day
       /\ (device_name \o "_month") \in SinkKeys
             <=> /\ IsSome(cost_calc_requested.cost_month)
                 /\ DayMatches(clock, MonthlyTarget)
       /\ (device_name \o "_year") \in SinkKeys
             <=> /\ IsSome(cost_calc_requested.cost_year)
                 /\ DayMatches(clock, Get(cost_calc_requested.cost_year).day)
                 /\ clock.month = Get(cost_calc_requested.cost_year).month
       /\ SinkKeys \subseteq { device_name \o "_day", device_name \o "_month",
                               device_name \o "_year" }
       /\ \A k \in SinkKeys : Emitted(k) = 1
       /\ \A i \in 1..Len(sink) : sink[i].data.end_date = strftime(clock)

\* C5: with no sample in any window the invocation hands on no record and
\* raises nothing, whatever the state of the configuration file.
C5_EmptyWindowIsSilent ==
    (HandlerReturned /\ NoWindowHasSamples)
    => /\ raised = ""
       /\ sink = <<>>

\* C6: with samples in every window the aggregation never ends in a
\* division by zero, whatever the device's update_time.
C6_NoDivisionByZero ==
    (HandlerReturned /\ EveryWindowHasSamples) => raised # "ZeroDivisionError"

\* C7: the yearly cadence is enabled iff cost_calc_year is two digits, a dot,
\* two digits; then the day is int(DD) if in 1..31 else 1 and the month is
\* int(MM) if in 1..12 else 1; otherwise it stays None; no error is raised.
C7_YearlyTargetFromDayDotMonth ==
    (called = "check_cost_calc_requested" /\ IsSome(settings.cost_calc_year))
    => LET str == Get(settings.cost_calc_year)
       IN  /\ raised = ""
           /\ IsSome(cost_calc_requested.cost_year) <=> DayDotMonth(str)
           /\ DayDotMonth(str)
                 => cost_calc_requested.cost_year
                       = Some([day   |-> DayOrOne(TwoDigitValue(str[1], str[2])),
                               month |-> MonthOrOne(TwoDigitValue(str[4], str[5]))])

\* C8: a configuration defect is never propagated to the caller of a
\* configuration reader; its first occurrence writes one warning and sets
\* the flag of its kind, later occurrences write none.
C8_WarnedOncePerKind ==
    /\ \A k \in DOMAIN log : log[k] <= 1
    /\ (called \in {"check_cost_config", "check_cost_calc_request_time"} /\ FileMissing)
          => raised = "" /\ log["FileNotFoundError"] = 1
    /\ (called = "check_cost_config" /\ PriceUnparseable)
          => raised = "" /\ log["ValueError"] = 1

\* C9: invoked once on every consecutive day, the dispatcher finds the
\* monthly cadence due on at most one day of a month, and by the month's
\* last day on exactly one.
C9_DueOncePerMonth ==
    /\ month_reports.in_month <= 1
    /\ (HandlerReturned /\ clock.day = CalendarLastDay(clock)) => month_reports.in_month = 1

C9_Witness ==
    /\ HandlerReturned
    /\ clock = Date(2023, 2, 28)
    /\ MonthlyTarget = 30
    /\ month_reports.in_month = 1

MonthRecord == sink[CHOOSE i \in 1..Len(sink) : is_month_record(sink[i])]

SecondMonthlyReport ==
    /\ HandlerReturned
    /\ (device_name \o "_month") \in SinkKeys
    /\ IsSome(month_reports.prev_end)

\* C10: invoked once a day, for every monthly target day the window of a
\* monthly report starts where the window of the previous monthly report
\* ended.
C10_MonthlyWindowsTile ==
    SecondMonthlyReport => MonthRecord.data.start_date = Get(month_reports.prev_end)

\* C10, amended: the same for the monthly target days 1..28, the days every
\* month has.
C10_MonthlyWindowsTileUpTo28 ==
    (SecondMonthlyReport /\ MonthlyTarget <= 28)
    => MonthRecord.data.start_date = Get(month_reports.prev_end)

C10_Witness ==
    /\ SecondMonthlyReport
    /\ MonthlyTarget = 28
    /\ clock = Date(2024, 3, 28)
    /\ MonthRecord.data.start_date = strftime(Date(2024, 2, 28))

====
